---- MODULE Spec2Model ----
(***************************************************************************)
(* State-machine model of HFS-main/exp_runner_high.py: the Runner's        *)
(* construction (checkpoint scan and load), the training loop of           *)
(* Runner.train with its schedules and cadences, checkpoint save/load,     *)
(* and the chunked rendering of validate_image / render_novel_image.       *)
(***************************************************************************)
EXTENDS Integers, Sequences, FiniteSets, TLC

(***************************************************************************)
(* Bounds of the model and constants of the program.                       *)
(***************************************************************************)
\* largest end_iter (config value or --end_iter override) of the lifecycle model
MaxEndIter == 3
\* largest number of training images (dataset.n_images)
MaxImages == 2
\* largest save_freq / report_freq / val_freq
MaxFreq == 3
\* number of Runner constructions (process starts) followed
MaxRuns == 2
\* iterations a run of the train-loop specification covers around the throttle
TrainSpan == 16
\* largest H and W of a validation ray grid, and largest batch_size
MaxSide == 3
MaxBatch == 4

\* exp_runner_high.py:237  "if self.iter_step <= 10000"
ValThrottleStep == 10000
\* exp_runner_high.py:239  "self.val_freq * 5"
ValThrottleFactor == 5
\* exp_runner_high.py:321  'ckpt_{:0>6d}.pth'
CkptPadWidth == 6

\* Python's None where a string or an exception name is expected
None == "None"
\* Python's None and [] where a file name is expected (names are sequences of
\* characters), and the marker of a scan that raised ValueError
NoName == << "None" >>
EmptyList == << "[]" >>
ScanValueError == << "ValueError" >>
ScanNoDirectory == << "FileNotFoundError" >>
\* argparse's default None for --end_iter
NoEndIter == -1

(***************************************************************************)
(* Exact rationals <<n, d>> in lowest terms with d > 0, for the schedule   *)
(* values the code computes in floating point.                             *)
(***************************************************************************)
Abs(x) == IF x < 0 THEN -x ELSE x

RECURSIVE GCD(_, _)
GCD(a, b) == IF b = 0 THEN a ELSE GCD(b, a % b)

Frac(n, d) ==
    LET g == GCD(Abs(n), Abs(d))
        s == IF d < 0 THEN -1 ELSE 1
    IN  << (s * n) \div g, (s * d) \div g >>

One == Frac(1, 1)
Half == Frac(1, 2)
Zero == Frac(0, 1)

(***************************************************************************)
(* Schedule Controller: pure functions of iter_step and the configuration. *)
(***************************************************************************)
\* train(), lines 247-250: the coarse-to-fine value written into the fields.
\* 0.5 + iter_step / end_iter is (end_iter + 2 iter_step) / (2 end_iter).
ProgressData(step, e_iter) ==
    IF 2 * step > e_iter THEN One ELSE Frac(e_iter + 2 * step, 2 * e_iter)

\* get_cos_anneal_ratio(): 1.0 when anneal_end is 0, else min(1, iter_step / anneal_end).
CosAnnealRatio(step, a_end) ==
    IF a_end = 0 THEN One
    ELSE IF step >= a_end THEN One ELSE Frac(step, a_end)

\* update_learning_rate() divides by (end_iter - warm_up_end) in its cosine branch.
LrRaises(step, e_iter, w_end) == step >= w_end /\ e_iter = w_end

\* Variant: a warm-up that counts the iteration about to run as done.
LearningFactor_WarmUpAhead(step, e_iter, w_end) ==
    IF step < w_end
    THEN [kind |-> "linear", v |-> Frac(step + 1, w_end)]
    ELSE [kind |-> "cosine", v |-> Frac(step - w_end, e_iter - w_end)]

\* update_learning_rate(): the learning factor.  The linear value is exact; the
\* cosine value is (cos(pi * progress) + 1) / 2 * (1 - alpha) + alpha, a function
\* of progress alone, so it is kept as the exact progress it is computed from.
LearningFactor(step, e_iter, w_end) ==
    IF step < w_end
    THEN [kind |-> "linear", v |-> Frac(step, w_end)]
    ELSE [kind |-> "cosine", v |-> Frac(step - w_end, e_iter - w_end)]

\* torch.optim.Adam(params_to_train, lr=self.learning_rate): factor 1 of the base rate.
BaseLr == [kind |-> "base", v |-> One]

(***************************************************************************)
(* File names: sequences of characters, so that formatting and parsing are *)
(* computed as Python computes them.                                       *)
(***************************************************************************)
DigitChars == << "0", "1", "2", "3", "4", "5", "6", "7", "8", "9" >>

RECURSIVE Digits(_)
Digits(n) ==
    IF n < 10 THEN << DigitChars[n + 1] >>
    ELSE Digits(n \div 10) \o << DigitChars[(n % 10) + 1] >>

\* '{:0>6d}': right-aligned in a field of at least CkptPadWidth, filled with "0";
\* a longer number is not cut.
RECURSIVE ZeroPad(_, _)
ZeroPad(s, w) == IF Len(s) >= w THEN s ELSE ZeroPad(<< "0" >> \o s, w)

\* save_checkpoint(), line 321: 'ckpt_{:0>6d}.pth'.format(self.iter_step)
CkptName(step) ==
    << "c", "k", "p", "t", "_" >> \o ZeroPad(Digits(step), CkptPadWidth)
        \o << ".", "p", "t", "h" >>

\* Variant: the six characters after "ckpt_", whatever the name's length.
Slice5m4_SixChars(s) == SubSeq(s, 6, 11)

\* Python's s[5:-4]
Slice5m4(s) == IF Len(s) - 4 < 6 THEN << >> ELSE SubSeq(s, 6, Len(s) - 4)

\* Python's s[-3:]
Last3(s) == IF Len(s) <= 3 THEN s ELSE SubSeq(s, Len(s) - 2, Len(s))

DigitValue(c) == CHOOSE d \in 0..9 : DigitChars[d + 1] = c

IsDigit(c) == \E d \in 0..9 : DigitChars[d + 1] = c

RECURSIVE DigitsValue(_)
DigitsValue(s) ==
    IF Len(s) = 0 THEN 0
    ELSE 10 * DigitsValue(SubSeq(s, 1, Len(s) - 1)) + DigitValue(s[Len(s)])

\* int(text) raises ValueError unless text is an optional sign and decimal digits
\* (the names of the model hold no blank and no "_" between digits).
IntRaises(s) ==
    LET body == IF Len(s) > 0 /\ s[1] \in {"+", "-"} THEN Tail(s) ELSE s
    IN  Len(body) = 0 \/ \E i \in 1..Len(body) : ~IsDigit(body[i])

\* int(text) where it does not raise
IntOf(s) ==
    IF Len(s) > 0 /\ s[1] = "-" THEN 0 - DigitsValue(Tail(s))
    ELSE IF Len(s) > 0 /\ s[1] = "+" THEN DigitsValue(Tail(s))
    ELSE DigitsValue(s)

\* Entries of the checkpoints directory that no save_checkpoint wrote.
NotesTxt == << "n", "o", "t", "e", "s", ".", "t", "x", "t" >>
BackupBak == << "c", "k", "p", "t", "_", "0", "0", "0", "0", "0", "1", ".", "b", "a", "k" >>


(***************************************************************************)
(* State.                                                                  *)
(***************************************************************************)
VARIABLES
    conf,               \* the parsed configuration (self.conf), fixed for a behaviour
    fields_high,        \* what models/fields_high gives a field's progress scalar
    ckpt_dir,           \* whether <base_exp_dir>/checkpoints exists
    checkpoints,        \* the files of that directory: name -> content
    loss_txt,           \* <base_exp_dir>/logs/loss.txt: the lines appended so far
    validations_fine,   \* iterations with a validation image on disk
    meshes,             \* iterations with an exported mesh on disk
    pc,                 \* where the process is
    error,              \* the exception that ended it, or None
    runs,               \* Runner constructions so far
    is_continue,        \* self.is_continue
    ckpt_name,          \* self.ckpt_name
    latest_model_name,  \* the checkpoint name __init__ loaded, or None
    end_iter,           \* self.end_iter
    iter_step,          \* self.iter_step
    weights,            \* the networks' trainable parameters: optimizer steps they hold
    optimizer,          \* self.optimizer: [state (Adam moments), lr (param_groups)]
    progress,           \* <network>.progress.data of each field component
    image_perm,         \* train()'s local image_perm
    iter_i,             \* train()'s local iter_i
    stt,                \* train()'s local stt
    first_iter,         \* no iteration of this train() call has completed yet
    render_in,          \* what the last renderer.render call of train() was given
    epochs,             \* open: the selections since each get_image_perm() call, up
                        \* to n_images of them; closed: the last window of n_images
    run_log,            \* what this Runner's train() did, by iteration
    uninterrupted,      \* by checkpoint: the saving run's state at its next render
    grid,               \* the ray grid and batch size of a full-image render
    image               \* what the last full-image render assembled or raised

runner == << is_continue, ckpt_name, latest_model_name, end_iter, iter_step, weights,
             optimizer, progress >>
locals == << image_perm, iter_i, stt, first_iter, render_in, epochs >>
disk == << ckpt_dir, checkpoints, loss_txt, validations_fine, meshes >>
static == << conf, fields_high >>
lifecycle == << pc, error, runs, runner, locals, disk, run_log, uninterrupted >>
rendering == << grid, image >>
vars == << static, lifecycle, rendering >>

\* the content of a file that is no checkpoint
Junk == [junk |-> TRUE]

\* The components train() writes the coarse-to-fine value into (lines 251-253),
\* and the one it fills with 1.0 (line 141).
Coupled == {"sdf_network", "sdf_network_high", "color_network"}
Components == Coupled \cup {"nerf_outside"}

\* get_image_perm(): the values torch.randperm(n_images) can return.
ImagePerms(n) ==
    { p \in [1..n -> 0..(n - 1)] : \A i, j \in 1..n : p[i] = p[j] => i = j }

NoRender == [iter_step |-> -1]
NoRunLog == [saved |-> {}, logged |-> << >>, validated |-> {}, steps |-> 0]
NoEpochs == [open |-> << >>, closed |-> << >>]
NoGrid == [H |-> 0, W |-> 0, batch_size |-> 0]
NoImage == [call |-> None]

(***************************************************************************)
(* Checkpoint Manager.                                                     *)
(***************************************************************************)
\* What a field's state_dict() holds of its progress scalar.
StateDictProgress(prog) == IF fields_high.in_state_dict THEN {prog} ELSE {}

\* save_checkpoint(), lines 309-317: the dictionary written.
Checkpoint(w, opt, prog, step) ==
    [weights |-> w, optimizer |-> opt, progress |-> StateDictProgress(prog),
     iter_step |-> step]

\* save_checkpoint(), lines 319-321: makedirs(exist_ok=True), then torch.save
\* under the formatted name, replacing a file of that name.
SaveCheckpoint(dir, ckpt) ==
    LET name == CkptName(ckpt.iter_step)
    IN  [n \in (DOMAIN dir) \cup {name} |-> IF n = name THEN ckpt ELSE dir[n]]

\* __init__, lines 116-121, over the entries still to visit; every entry is
\* parsed before its extension is looked at.
RECURSIVE ScanLoop(_, _, _, _)
ScanLoop(todo, num, model_list, e_iter) ==
    IF todo = {} THEN model_list
    ELSE LET model_name == CHOOSE n \in todo : TRUE
             rest == todo \ {model_name}
             text == Slice5m4(model_name)
         IN  IF IntRaises(text) THEN ScanValueError
             ELSE IF Last3(model_name) = << "p", "t", "h" >>
                     /\ IntOf(text) <= e_iter /\ IntOf(text) > num
                  THEN ScanLoop(rest, IntOf(text), model_name, e_iter)
                  ELSE ScanLoop(rest, num, model_list, e_iter)

\* Variant: the scan keeps the newest artifact whatever end_iter is.
LatestModelName_IgnoresEndIter(is_c, name_arg, exists, dir, e_iter) ==
    IF ~is_c THEN NoName
    ELSE IF name_arg # NoName THEN name_arg
    ELSE IF ~exists THEN ScanNoDirectory
    ELSE ScanLoop(DOMAIN dir, -1, EmptyList, 999999)

\* Variant: a scan that finds nothing leaves no name, so nothing is loaded.
LatestModelName_NoneWhenEmpty(is_c, name_arg, exists, dir, e_iter) ==
    IF ~is_c THEN NoName
    ELSE IF name_arg # NoName THEN name_arg
    ELSE IF ~exists THEN NoName
    ELSE IF ScanLoop(DOMAIN dir, -1, EmptyList, e_iter) = EmptyList THEN NoName
    ELSE ScanLoop(DOMAIN dir, -1, EmptyList, e_iter)

\* Variant: the scan keeps the oldest eligible artifact instead of the newest.
LatestModelName_Oldest(is_c, name_arg, exists, dir, e_iter) ==
    IF ~is_c THEN NoName
    ELSE IF name_arg # NoName THEN name_arg
    ELSE IF ~exists THEN ScanNoDirectory
    ELSE LET newest == ScanLoop(DOMAIN dir, -1, EmptyList, e_iter)
             eligible == { n \in DOMAIN dir :
                             /\ ~IntRaises(Slice5m4(n))
                             /\ Last3(n) = << "p", "t", "h" >>
                             /\ IntOf(Slice5m4(n)) <= e_iter }
         IN  IF newest \in {EmptyList, ScanValueError} THEN newest
             ELSE CHOOSE n \in eligible :
                      \A m \in eligible : IntOf(Slice5m4(n)) <= IntOf(Slice5m4(m))

\* __init__, lines 108-123: latest_model_name, or the exception raised.
\* os.listdir raises when the directory does not exist.
LatestModelName(is_c, name_arg, exists, dir, e_iter) ==
    IF ~is_c THEN NoName
    ELSE IF name_arg # NoName THEN name_arg
    ELSE IF ~exists THEN ScanNoDirectory
    ELSE ScanLoop(DOMAIN dir, -1, EmptyList, e_iter)

\* load_checkpoint(), lines 296-297: what torch.load raises, or None.
LoadRaises(name, dir) ==
    IF name = EmptyList THEN "TypeError"
    ELSE IF name \notin DOMAIN dir THEN "FileNotFoundError"
    ELSE IF dir[name] = Junk THEN "UnpicklingError"
    ELSE None

\* load_checkpoint(), lines 298-302: load_state_dict restores the progress scalar
\* when the state dict holds it, and leaves the constructor's value otherwise.
LoadedProgress(ckpt, prog) ==
    IF ckpt.progress = {} THEN prog ELSE CHOOSE p \in ckpt.progress : TRUE


(***************************************************************************)
(* Initial states: no process, and an experiment directory that holds at   *)
(* most a stray file in its checkpoints directory.                         *)
(***************************************************************************)
\* The cadences act through separate tests on separate outputs (lines 224-243),
\* so the configurations rotate them instead of taking their product: each
\* takes every value of 1..MaxFreq, and every pair of cadences differs somewhere.
\* One more configuration saves and reports at every iteration and validates
\* less often than the run is long.
Rotate(f, by) == ((f + by - 1) % MaxFreq) + 1

Cadences ==
    { [save_freq |-> f, report_freq |-> Rotate(f, 1), val_freq |-> Rotate(f, 2),
       val_mesh_freq |-> Rotate(f, 3)] : f \in 1..MaxFreq }
    \cup { [save_freq |-> 1, report_freq |-> 1, val_freq |-> MaxEndIter,
            val_mesh_freq |-> MaxEndIter] }

\* warm_up_end and anneal_end are 0 (both schedules off) or 2 (both on).
Configs ==
    { [n_images |-> n, save_freq |-> c.save_freq, report_freq |-> c.report_freq,
       val_freq |-> c.val_freq, val_mesh_freq |-> c.val_mesh_freq,
       warm_up_end |-> w, anneal_end |-> w, end_iter |-> MaxEndIter] :
      n \in 1..MaxImages, c \in Cadences, w \in {0, 2} }

FieldBehaviours == [progress_init : {Zero, Half, One}, in_state_dict : BOOLEAN]

NoProcess ==
    /\ pc = "off"
    /\ error = None
    /\ is_continue = FALSE
    /\ ckpt_name = NoName
    /\ latest_model_name = NoName
    /\ end_iter = 0
    /\ iter_step = 0
    /\ weights = 0
    /\ optimizer = [state |-> 0, lr |-> BaseLr]
    /\ progress = [c \in Components |-> Zero]
    /\ image_perm = << >>
    /\ iter_i = 0
    /\ stt = 0
    /\ first_iter = FALSE
    /\ render_in = NoRender
    /\ epochs = NoEpochs
    /\ run_log = NoRunLog

InitWith(confs) ==
    /\ conf \in confs
    /\ fields_high \in FieldBehaviours
    /\ \E stray \in {{}, {BackupBak}, {NotesTxt}} :
          /\ ckpt_dir = (stray # {})
          /\ checkpoints = [n \in stray |-> Junk]
    /\ loss_txt = << >>
    /\ validations_fine = {}
    /\ meshes = {}
    /\ runs = 0
    /\ uninterrupted = << >>
    /\ grid = NoGrid
    /\ image = NoImage
    /\ NoProcess

Init == InitWith(Configs)

\* The same, over a dataset of one image: train() draws no permutation but <<0>>.
InitOneImage == InitWith({ c \in Configs : c.n_images = 1 })

(***************************************************************************)
(* Runner.__init__                                                         *)
(***************************************************************************)
\* The checkpoint names a caller can pass as ckpt_name: one on disk, or one
\* that is not there (no save_checkpoint runs at iter_step 0).
CkptNameArgs ==
    {NoName, CkptName(0)} \cup { n \in DOMAIN checkpoints : checkpoints[n] # Junk }

RunnerInit(is_c, name_arg, e_arg) ==
    /\ pc = "off"
    /\ runs < MaxRuns
    /\ runs' = runs + 1
    /\ is_continue' = is_c
    /\ ckpt_name' = name_arg
    /\ end_iter' = IF e_arg # NoEndIter THEN e_arg ELSE conf.end_iter
    /\ run_log' = NoRunLog
    /\ LET latest == LatestModelName(is_c, name_arg, ckpt_dir, checkpoints, end_iter')
           raised == IF latest = ScanValueError THEN "ValueError"
                     ELSE IF latest = ScanNoDirectory THEN "FileNotFoundError"
                     ELSE IF latest = NoName THEN None
                     ELSE LoadRaises(latest, checkpoints)
           fresh == [c \in Components |-> fields_high.progress_init]
       IN  IF raised # None
           THEN /\ pc' = "error"
                /\ error' = raised
                /\ UNCHANGED << latest_model_name, iter_step, weights, optimizer, progress >>
           ELSE /\ pc' = "constructed"
                /\ error' = None
                /\ latest_model_name' = latest
                /\ IF latest = NoName
                   THEN /\ iter_step' = 0
                        /\ weights' = 0
                        /\ optimizer' = [state |-> 0, lr |-> BaseLr]
                        /\ progress' = fresh
                   ELSE LET ckpt == checkpoints[latest]
                        IN  /\ iter_step' = ckpt.iter_step
                            /\ weights' = ckpt.weights
                            /\ optimizer' = ckpt.optimizer
                            /\ progress' = LoadedProgress(ckpt, fresh)
    /\ UNCHANGED << static, locals, disk, uninterrupted, rendering >>


(***************************************************************************)
(* Runner.train                                                            *)
(***************************************************************************)
\* Variant: a cadence without the extra firing at iteration 1.
CadenceDue_NoFirst(step, freq) == step % freq = 0

\* Lines 224, 233, 242: "iter_step % freq == 0 or iter_step == 1".
CadenceDue(step, freq) == step % freq = 0 \/ step = 1

\* Variant: every scheduled tick validates, late in training too.
ValidateImageDue_Unthrottled(step, val_freq) == step % val_freq = 0 \/ step = 1

\* Lines 236-240: the image-validation cadence and its throttle.
ValidateImageDue(step, val_freq) ==
    /\ step % val_freq = 0 \/ step = 1
    /\ \/ step <= ValThrottleStep
       \/ step % (val_freq * ValThrottleFactor) = 0

\* Variant: a range that includes its upper end.
InRange_Inclusive(i, lo, hi) == lo <= i /\ i <= hi

\* Line 147: "iter_i in tqdm(range(stt, nd))" is membership in range(stt, nd).
InRange(i, lo, hi) == lo <= i /\ i < hi

\* Line 256: the permutation is drawn again after its last position was used.
PermExhausted(i, n) == (i + 1) % n = 0

\* What a renderer.render call of train() works with (lines 167-169): the
\* networks' parameters, the optimizer that will step on its loss, the
\* cosine-anneal ratio, and each coupled field's progress value.
RenderView(w, opt, prog, step) ==
    [iter_step |-> step, weights |-> w, optimizer |-> opt,
     cos_anneal_ratio |-> CosAnnealRatio(step, conf.anneal_end),
     progress |-> [c \in Coupled |-> prog[c]]]

\* How often a window of selections took each image index.
Selections(w, n) ==
    [i \in 0..(n - 1) |-> Cardinality({ k \in 1..Len(w) : w[k] = i })]

\* Lines 134-146.
TrainStart ==
    /\ pc = "constructed"
    /\ IF LrRaises(iter_step, end_iter, conf.warm_up_end)
       THEN /\ pc' = "error"
            /\ error' = "ZeroDivisionError"
            /\ UNCHANGED << optimizer, progress, locals >>
       ELSE /\ pc' = "loop"
            /\ error' = None
            /\ optimizer' = [optimizer EXCEPT
                   !.lr = LearningFactor(iter_step, end_iter, conf.warm_up_end)]
            /\ image_perm' \in ImagePerms(conf.n_images)
            /\ progress' = [progress EXCEPT !["nerf_outside"] = One]
            /\ stt' = iter_step
            /\ iter_i' = iter_step
            /\ first_iter' = TRUE
            /\ epochs' = [open |-> << << >> >>, closed |-> << >>]
            /\ UNCHANGED render_in
    /\ UNCHANGED << static, runs, is_continue, ckpt_name, latest_model_name, end_iter,
                    iter_step, weights, disk, run_log, uninterrupted, rendering >>

\* Lines 147-259, one pass of the loop body: the loop test, the image selection
\* and the render call; the optimizer step; the cadenced outputs; the schedules
\* for the next iteration; the permutation's renewal.
TrainIteration ==
    /\ pc = "loop"
    /\ InRange(iter_i, stt, end_iter)
    /\ LET idx_list == image_perm[(iter_step % Len(image_perm)) + 1]
           grown == [k \in 1..Len(epochs.open) |-> Append(epochs.open[k], idx_list)]
           Unfinished(w) == Len(w) < conf.n_images
           Finished(w) == Len(w) = conf.n_images
           done == SelectSeq(grown, Finished)
           selected == [open |-> SelectSeq(grown, Unfinished),
                        closed |-> IF done = << >> THEN epochs.closed
                                   ELSE Selections(done[1], conf.n_images)]
           step == iter_step + 1
           stepped == [optimizer EXCEPT !.state = optimizer.state + 1]
           report == CadenceDue(step, conf.report_freq)
           save == CadenceDue(step, conf.save_freq)
           val == ValidateImageDue(step, conf.val_freq)
           mesh == CadenceDue(step, conf.val_mesh_freq)
           raises == LrRaises(step, end_iter, conf.warm_up_end)
           ckpt == Checkpoint(weights + 1, stepped, progress, step)
           next_opt == [stepped EXCEPT
                            !.lr = LearningFactor(step, end_iter, conf.warm_up_end)]
           next_prog == [c \in Components |->
                            IF c \in Coupled THEN ProgressData(step, end_iter)
                            ELSE progress[c]]
           renew == PermExhausted(iter_i, Len(image_perm))
       IN  /\ render_in' = RenderView(weights, optimizer, progress, iter_step)
                               @@ [first |-> first_iter]
           /\ weights' = weights + 1
           /\ iter_step' = step
           /\ loss_txt' = IF report
                          THEN Append(loss_txt, [iter |-> step, lr |-> optimizer.lr])
                          ELSE loss_txt
           /\ checkpoints' = IF save THEN SaveCheckpoint(checkpoints, ckpt)
                             ELSE checkpoints
           /\ ckpt_dir' = (ckpt_dir \/ save)
           /\ validations_fine' = IF val THEN validations_fine \cup {step}
                                  ELSE validations_fine
           /\ meshes' = IF mesh THEN meshes \cup {step} ELSE meshes
           /\ run_log' = [saved |-> IF save THEN run_log.saved \cup {step}
                                    ELSE run_log.saved,
                          logged |-> IF report THEN Append(run_log.logged, step)
                                     ELSE run_log.logged,
                          validated |-> IF val THEN run_log.validated \cup {step}
                                        ELSE run_log.validated,
                          steps |-> run_log.steps + 1]
           /\ IF raises
              THEN /\ pc' = "error"
                   /\ error' = "ZeroDivisionError"
                   /\ optimizer' = stepped
                   /\ epochs' = selected
                   /\ UNCHANGED << progress, image_perm, iter_i, first_iter >>
                   /\ uninterrupted' =
                          IF save
                          THEN [n \in (DOMAIN uninterrupted) \ {CkptName(step)} |->
                                   uninterrupted[n]]
                          ELSE uninterrupted
              ELSE /\ pc' = "loop"
                   /\ error' = None
                   /\ optimizer' = next_opt
                   /\ progress' = next_prog
                   /\ image_perm' \in IF renew THEN ImagePerms(conf.n_images)
                                      ELSE {image_perm}
                   /\ epochs' = IF renew
                                THEN [selected EXCEPT !.open = Append(@, << >>)]
                                ELSE selected
                   /\ iter_i' = iter_i + 1
                   /\ first_iter' = FALSE
                   /\ uninterrupted' =
                          IF save
                          THEN [n \in (DOMAIN uninterrupted) \cup {CkptName(step)} |->
                                   IF n = CkptName(step)
                                   THEN [end_iter |-> end_iter,
                                         view |-> RenderView(weights + 1, next_opt,
                                                             next_prog, step)]
                                   ELSE uninterrupted[n]]
                          ELSE uninterrupted
    /\ UNCHANGED << static, runs, is_continue, ckpt_name, latest_model_name, end_iter,
                    stt, rendering >>

\* Line 147, the loop test failing: train() returns, and its permutation is gone.
TrainEnd ==
    /\ pc = "loop"
    /\ ~InRange(iter_i, stt, end_iter)
    /\ pc' = "done"
    /\ image_perm' = << >>
    /\ epochs' = [epochs EXCEPT !.open = << >>]
    /\ UNCHANGED << static, error, runs, runner, iter_i, stt, first_iter, render_in,
                    disk, run_log, uninterrupted, rendering >>

(***************************************************************************)
(* The process: __main__ in mode "train", and its end.                     *)
(***************************************************************************)
ProcessEnds ==
    /\ pc' = "off"
    /\ error' = None
    /\ is_continue' = FALSE
    /\ ckpt_name' = NoName
    /\ latest_model_name' = NoName
    /\ end_iter' = 0
    /\ iter_step' = 0
    /\ weights' = 0
    /\ optimizer' = [state |-> 0, lr |-> BaseLr]
    /\ progress' = [c \in Components |-> Zero]
    /\ image_perm' = << >>
    /\ iter_i' = 0
    /\ stt' = 0
    /\ first_iter' = FALSE
    /\ render_in' = NoRender
    /\ epochs' = NoEpochs
    /\ run_log' = NoRunLog

\* Lines 552-554: after train(), the final mesh and image validation, then exit.
MainFinish ==
    /\ pc = "done"
    /\ meshes' = meshes \cup {iter_step}
    /\ validations_fine' = validations_fine \cup {iter_step}
    /\ ProcessEnds
    /\ UNCHANGED << static, runs, ckpt_dir, checkpoints, loss_txt, uninterrupted, rendering >>

\* An uncaught exception ends the process.
Abort ==
    /\ pc = "error"
    /\ ProcessEnds
    /\ UNCHANGED << static, runs, disk, uninterrupted, rendering >>

Next ==
    \/ \E is_c \in BOOLEAN :
         \E name_arg \in (IF is_c THEN CkptNameArgs ELSE {NoName}) :
           \E e_arg \in {NoEndIter} \cup (0..(MaxEndIter - 1)) :
             RunnerInit(is_c, name_arg, e_arg)
    \/ TrainStart
    \/ TrainIteration
    \/ TrainEnd
    \/ MainFinish
    \/ Abort

Spec == Init /\ [][Next]_vars

SpecOneImage == InitOneImage /\ [][Next]_vars


(***************************************************************************)
(* The train loop alone, entered just below the validation throttle: the   *)
(* Runner was constructed to resume from the one checkpoint its directory  *)
(* holds.                                                                  *)
(***************************************************************************)
InitTrain ==
    /\ conf \in { [c EXCEPT !.end_iter = ValThrottleStep - 4 + TrainSpan] : c \in Configs }
    /\ fields_high \in FieldBehaviours
    /\ LET k == ValThrottleStep - 4
           opt == [state |-> k,
                   lr |-> LearningFactor(k - 1, conf.end_iter, conf.warm_up_end)]
           before == [c \in Components |->
                         IF c \in Coupled THEN ProgressData(k - 1, conf.end_iter)
                         ELSE One]
           ckpt == Checkpoint(k, opt, before, k)
       IN  /\ ckpt_dir = TRUE
           /\ checkpoints = [n \in {CkptName(k)} |-> ckpt]
           /\ pc = "constructed"
           /\ is_continue = TRUE
           /\ ckpt_name = NoName
           /\ latest_model_name = CkptName(k)
           /\ end_iter = conf.end_iter
           /\ iter_step = k
           /\ weights = k
           /\ optimizer = opt
           /\ progress = LoadedProgress(ckpt,
                             [c \in Components |-> fields_high.progress_init])
    /\ error = None
    /\ loss_txt = << >>
    /\ validations_fine = {}
    /\ meshes = {}
    /\ runs = 1
    /\ uninterrupted = << >>
    /\ grid = NoGrid
    /\ image = NoImage
    /\ image_perm = << >>
    /\ iter_i = 0
    /\ stt = 0
    /\ first_iter = FALSE
    /\ render_in = NoRender
    /\ epochs = NoEpochs
    /\ run_log = NoRunLog

NextTrain ==
    \/ TrainStart
    \/ TrainIteration
    \/ TrainEnd

SpecTrain == InitTrain /\ [][NextTrain]_vars

(***************************************************************************)
(* The command line run again and again on an experiment whose directory   *)
(* holds one checkpoint, late enough in training for iteration numbers of  *)
(* five, six and seven digits: --is_continue is always set, --end_iter is  *)
(* left at its default.                                                    *)
(***************************************************************************)
\* The iteration of the checkpoint on disk; training has two iterations to go.
LateIters == {1, 99998, 999998, 1234566}

InitLate ==
    /\ \E k \in LateIters :
          /\ conf \in { [c EXCEPT !.end_iter = k + 2] :
                          c \in { d \in Configs : d.n_images = 1 /\ d.save_freq = 1 } }
          /\ fields_high \in FieldBehaviours
          /\ LET opt == [state |-> k,
                         lr |-> LearningFactor(k - 1, conf.end_iter, conf.warm_up_end)]
                 before == [c \in Components |->
                               IF c \notin Coupled THEN One
                               ELSE IF k = 1 THEN fields_high.progress_init
                               ELSE ProgressData(k - 1, conf.end_iter)]
             IN  checkpoints = [n \in {CkptName(k)} |-> Checkpoint(k, opt, before, k)]
    /\ ckpt_dir = TRUE
    /\ loss_txt = << >>
    /\ validations_fine = {}
    /\ meshes = {}
    /\ runs = 0
    /\ uninterrupted = << >>
    /\ grid = NoGrid
    /\ image = NoImage
    /\ NoProcess

NextLate ==
    \/ \E name_arg \in CkptNameArgs : RunnerInit(TRUE, name_arg, NoEndIter)
    \/ TrainStart
    \/ TrainIteration
    \/ TrainEnd
    \/ MainFinish
    \/ Abort

SpecLate == InitLate /\ [][NextLate]_vars

(***************************************************************************)
(* Full-image rendering: validate_image and render_novel_image.            *)
(***************************************************************************)
Min(a, b) == IF a < b THEN a ELSE b

\* dataset.gen_rays_at / gen_rays_between: an H x W grid of rays; the ray of
\* pixel (i, j) is known by its place.
RayGrid(tag, H, W) == [i \in 1..H |-> [j \in 1..W |-> << tag, i, j >>]]

\* tensor.reshape(-1, 3): the grid's rays in row-major order.
Flatten(m, H, W) ==
    [k \in 1..(H * W) |-> m[((k - 1) \div W) + 1][((k - 1) % W) + 1]]

\* Variant: only the full chunks, what is left over is dropped.
Split_FullChunksOnly(rays, b) ==
    [c \in 1..(Len(rays) \div b) |-> SubSeq(rays, (c - 1) * b + 1, c * b)]

\* tensor.split(batch_size): consecutive chunks of batch_size, the last one
\* holding what is left.
Split(rays, b) ==
    [c \in 1..((Len(rays) + b - 1) \div b) |->
        SubSeq(rays, (c - 1) * b + 1, Min(c * b, Len(rays)))]

\* zip(rays_o, rays_d)
Zip(xs, ys) == [c \in 1..Min(Len(xs), Len(ys)) |-> [o |-> xs[c], d |-> ys[c]]]

\* renderer.render on one batch: output `key` of each ray, a function of the
\* ray's origin and direction under the current model state.
RenderBatch(key, batch) ==
    [k \in 1..Len(batch.o) |-> << key, batch.o[k], batch.d[k] >>]

\* np.concatenate(outs, axis=0)
RECURSIVE Concatenate(_)
Concatenate(outs) ==
    IF Len(outs) = 0 THEN << >> ELSE Head(outs) \o Concatenate(Tail(outs))

ReshapeRaises(flat, H, W) == Len(flat) # H * W

\* array.reshape([H, W, ...]): row-major.
Reshape(flat, H, W) ==
    [i \in 1..H |-> [j \in 1..W |-> flat[(i - 1) * W + j]]]

\* The keys a render output can hold that validate_image looks at.
Signals == {"color_fine", "gradients", "weights", "depth_sdf", "ncc_cost"}

\* feasible(key), lines 360-361
Feasible(key, supplied) == key \in supplied

\* Lines 349-377: the per-batch outputs collected under one list.
Collected(key, batches, wanted) ==
    IF wanted THEN [c \in 1..Len(batches) |-> RenderBatch(key, batches[c])] ELSE << >>

\* Lines 379-416: a collected list assembled into an image, or nothing.
Assembled(outs, H, W) ==
    IF Len(outs) > 0 THEN Reshape(Concatenate(outs), H, W) ELSE << >>

\* validate_image(), lines 339-446, for a ray grid of H x W.
ValidateImageResult(H, W, b, supplied) ==
    LET rays_o == Split(Flatten(RayGrid("o", H, W), H, W), b)
        rays_d == Split(Flatten(RayGrid("d", H, W), H, W), b)
        batches == Zip(rays_o, rays_d)
        out_rgb_fine == Collected("color_fine", batches, Feasible("color_fine", supplied))
        out_normal_fine == Collected("normals", batches,
                               Feasible("gradients", supplied) /\ Feasible("weights", supplied))
        out_depth_fine == Collected("depth_sdf", batches, Feasible("depth_sdf", supplied))
        out_ncc_fine == Collected("ncc_cost", batches, Feasible("ncc_cost", supplied))
        lists == [validations_fine |-> out_rgb_fine, normals |-> out_normal_fine,
                  depths |-> out_depth_fine, ncc_costs |-> out_ncc_fine]
        raised ==
            IF \E kind \in DOMAIN lists :
                   Len(lists[kind]) > 0 /\ ReshapeRaises(Concatenate(lists[kind]), H, W)
            THEN "ValueError"
            ELSE IF Len(out_rgb_fine) = 0 THEN "AttributeError"
            ELSE None
    IN  [call |-> "validate_image", batches |-> batches, raised |-> raised,
         img_fine |-> IF raised = "ValueError" THEN << >>
                      ELSE Assembled(out_rgb_fine, H, W),
         written |-> IF raised # None THEN {}
                     ELSE { kind \in DOMAIN lists : Len(lists[kind]) > 0 }]

\* render_novel_image(), lines 455-477.
RenderNovelImageResult(H, W, b, supplied) ==
    LET rays_o == Split(Flatten(RayGrid("o", H, W), H, W), b)
        rays_d == Split(Flatten(RayGrid("d", H, W), H, W), b)
        batches == Zip(rays_o, rays_d)
        out_rgb_fine == Collected("color_fine", batches, TRUE)
        raised ==
            IF ~Feasible("color_fine", supplied) THEN "KeyError"
            ELSE IF ReshapeRaises(Concatenate(out_rgb_fine), H, W) THEN "ValueError"
            ELSE None
    IN  [call |-> "render_novel_image", batches |-> batches, raised |-> raised,
         img_fine |-> IF raised # None THEN << >>
                      ELSE Reshape(Concatenate(out_rgb_fine), H, W),
         written |-> {}]

\* __main__, lines 557-558: mode validate_image on the constructed Runner.
ValidateImage(H, W, b, supplied) ==
    /\ pc = "constructed"
    /\ grid' = [H |-> H, W |-> W, batch_size |-> b, supplied |-> supplied]
    /\ image' = ValidateImageResult(H, W, b, supplied)
    /\ pc' = IF image'.raised = None THEN "validated" ELSE "error"
    /\ error' = image'.raised
    /\ validations_fine' = IF "validations_fine" \in image'.written
                           THEN validations_fine \cup {iter_step}
                           ELSE validations_fine
    /\ UNCHANGED << static, runs, runner, locals, ckpt_dir, checkpoints, loss_txt,
                    meshes, run_log, uninterrupted >>

\* __main__, lines 559-563: one frame of interpolate_view on the constructed Runner.
RenderNovelImage(H, W, b, supplied) ==
    /\ pc = "constructed"
    /\ grid' = [H |-> H, W |-> W, batch_size |-> b, supplied |-> supplied]
    /\ image' = RenderNovelImageResult(H, W, b, supplied)
    /\ pc' = IF image'.raised = None THEN "interpolated" ELSE "error"
    /\ error' = image'.raised
    /\ UNCHANGED << static, runs, runner, locals, disk, run_log, uninterrupted >>

NextRender ==
    \/ \E H \in 1..MaxSide, W \in 1..MaxSide, b \in 1..MaxBatch, supplied \in SUBSET Signals :
         ValidateImage(H, W, b, supplied)
    \/ \E H \in 1..MaxSide, W \in 1..MaxSide, b \in 1..MaxBatch, supplied \in SUBSET Signals :
         RenderNovelImage(H, W, b, supplied)

\* A Runner constructed from the one checkpoint of its directory, before the
\* selected mode runs.
InitRender ==
    /\ conf \in { c \in Configs : c.n_images = 1 /\ c.save_freq = 1 /\ c.warm_up_end = 0 }
    /\ fields_high = [progress_init |-> Zero, in_state_dict |-> TRUE]
    /\ LET k == 1
           opt == [state |-> k,
                   lr |-> LearningFactor(k - 1, conf.end_iter, conf.warm_up_end)]
           before == [c \in Components |->
                         IF c \in Coupled THEN fields_high.progress_init ELSE One]
           ckpt == Checkpoint(k, opt, before, k)
       IN  /\ ckpt_dir = TRUE
           /\ checkpoints = [n \in {CkptName(k)} |-> ckpt]
           /\ pc = "constructed"
           /\ is_continue = TRUE
           /\ ckpt_name = NoName
           /\ latest_model_name = CkptName(k)
           /\ end_iter = conf.end_iter
           /\ iter_step = k
           /\ weights = k
           /\ optimizer = opt
           /\ progress = before
    /\ error = None
    /\ loss_txt = << >>
    /\ validations_fine = {}
    /\ meshes = {}
    /\ runs = 1
    /\ uninterrupted = << >>
    /\ grid = NoGrid
    /\ image = NoImage
    /\ image_perm = << >>
    /\ iter_i = 0
    /\ stt = 0
    /\ first_iter = FALSE
    /\ render_in = NoRender
    /\ epochs = NoEpochs
    /\ run_log = NoRunLog

SpecRender == InitRender /\ [][NextRender]_vars

(***************************************************************************)
(* Properties.                                                             *)
(***************************************************************************)
\* The artifacts save_checkpoint can have written, by the iteration in their name.
\* (the candidates are read off the names; the formatted name decides)
ArtifactIters(dir) ==
    LET AllDigits(t) == Len(t) > 0 /\ \A i \in 1..Len(t) : IsDigit(t[i])
        candidates == { DigitsValue(Slice5m4(n)) :
                          n \in { m \in DOMAIN dir : AllDigits(Slice5m4(m)) } }
    IN  { k \in candidates : CkptName(k) \in DOMAIN dir }

ScanResume == is_continue /\ ckpt_name = NoName

\* The render of the first iteration after a resume from a checkpoint whose
\* saving run had the same end_iter.
ResumedFirstRender ==
    /\ pc \in {"loop", "error", "done"}
    /\ is_continue
    /\ render_in # NoRender
    /\ render_in.first
    /\ latest_model_name \in DOMAIN uninterrupted
    /\ uninterrupted[latest_model_name].end_iter = end_iter

\* C1: after a resume from the checkpoint saved at iteration K, the first
\* iteration of train() renders with the state the saving run had at its next
\* render: iter_step K, the same parameters and optimizer state, the same
\* learning rate and cosine-anneal ratio, and the same progress value in
\* sdf_network, sdf_network_high and color_network.
C1_RoundTrip ==
    ResumedFirstRender =>
        [f \in (DOMAIN render_in) \ {"first"} |-> render_in[f]]
            = uninterrupted[latest_model_name].view

\* C2: a resume without a checkpoint name loads the artifact whose iteration is
\* the largest one not above end_iter, whatever artifacts the directory holds;
\* it fails only when no artifact is eligible or an entry cannot be parsed.
C2_SelectsMaxEligible ==
    LET iters == ArtifactIters(checkpoints)
        eligible == { k \in iters : k <= end_iter }
        unparsable == { n \in DOMAIN checkpoints : IntRaises(Slice5m4(n)) }
    IN  /\ (ScanResume /\ pc = "constructed") =>
              /\ eligible # {}
              /\ \A k \in eligible : k <= iter_step
              /\ iter_step \in eligible
              /\ latest_model_name = CkptName(iter_step)
              /\ weights = checkpoints[latest_model_name].weights
              /\ optimizer = checkpoints[latest_model_name].optimizer
        /\ (ScanResume /\ pc = "error" /\ error # "ZeroDivisionError") =>
              eligible = {} \/ unparsable # {}

\* C2 witness: artifacts below, at and above end_iter; the middle one is loaded.
C2_Witness ==
    /\ ScanResume
    /\ pc = "constructed"
    /\ iter_step = 2
    /\ {1, 2, 3} \subseteq ArtifactIters(checkpoints)
    /\ end_iter = 2

\* C3: an entry of the checkpoint directory whose name cannot be parsed is left
\* out of the scan: the scan raises nothing, and ends as it would without it.
C3_UnparsableSkipped ==
    (ScanResume /\ ckpt_dir /\ pc \in {"constructed", "error"}
        /\ error # "ZeroDivisionError") =>
        LET parsable == { n \in DOMAIN checkpoints : ~IntRaises(Slice5m4(n)) }
            without == [n \in parsable |-> checkpoints[n]]
            expected == LatestModelName(TRUE, NoName, TRUE, without, end_iter)
        IN  /\ error # "ValueError"
            /\ IF expected = EmptyList THEN pc = "error"
               ELSE pc = "constructed" /\ latest_model_name = expected

\* A checkpoint the resume can load: the named one, or with no name an artifact
\* of the directory whose iteration is at most end_iter.
HasEligible(name, exists, dir, e_iter) ==
    IF name # NoName THEN name \in DOMAIN dir /\ dir[name] # Junk
    ELSE exists /\ \E k \in ArtifactIters(dir) : k <= e_iter

\* C4: a Runner constructed to resume when no eligible checkpoint exists is not
\* returned: construction ends in an error, nothing is loaded, no iteration
\* runs, and the process ends.
C4_NoCheckpointIsFatal ==
    [][ /\ (pc = "off" /\ pc' # "off" /\ is_continue'
              /\ ~HasEligible(ckpt_name', ckpt_dir, checkpoints, end_iter')) =>
            /\ pc' = "error"
            /\ error' \in {"FileNotFoundError", "TypeError", "ValueError"}
            /\ iter_step' = 0 /\ weights' = 0 /\ run_log'.steps = 0
        /\ (pc = "error") => (pc' = "off" /\ UNCHANGED disk)
      ]_vars

\* C4 witness: a resume by scan found only artifacts above end_iter.
C4_Witness ==
    /\ ScanResume
    /\ pc = "error"
    /\ error = "TypeError"
    /\ ArtifactIters(checkpoints) # {}
    /\ \A k \in ArtifactIters(checkpoints) : k > end_iter

\* C5: a window of n_images consecutive selections that starts where a
\* permutation was drawn holds every image index exactly once.
C5_EpochWindows ==
    \A i \in DOMAIN epochs.closed : epochs.closed[i] = 1

\* C6: at every render call of train() the three coupled components hold the
\* schedule's value for the current iter_step.
C6_ProgressAtRender ==
    render_in # NoRender =>
        \A c \in Coupled : render_in.progress[c] = ProgressData(render_in.iter_step, end_iter)

\* C7 as claimed: when train() returns, iter_step equals end_iter.
C7_ReturnsAtEndIter == pc = "done" => iter_step = end_iter

\* C7: every iteration of train() steps the optimizer once and advances
\* iter_step by one towards end_iter, so the loop ends; when train() returns,
\* iter_step is end_iter if it started at or below it, and is unchanged (no
\* iteration ran) if the loaded checkpoint was already beyond end_iter.
C7_ReturnsAtMaxOfStartAndEnd ==
    [][ /\ (pc = "loop" /\ pc' \in {"loop", "error"}) =>
            /\ iter_step' = iter_step + 1
            /\ iter_step' <= end_iter
            /\ optimizer'.state = optimizer.state + 1
            /\ weights' = weights + 1
            /\ run_log'.steps = run_log.steps + 1
            /\ end_iter' = end_iter
        /\ (pc = "loop" /\ pc' = "loop") =>
            /\ iter_i' = iter_step'
            /\ end_iter - iter_i' < end_iter - iter_i
        /\ (pc' = "done") =>
            /\ iter_step' = (IF stt' <= end_iter' THEN end_iter' ELSE stt')
            /\ run_log'.steps = iter_step' - stt'
      ]_vars

\* C7 witness: a resumed train() that ran iterations has returned.
C7_Witness ==
    /\ pc = "done"
    /\ is_continue
    /\ run_log.steps >= 2
    /\ iter_step = end_iter

IsAscending(q) == \A i, j \in 1..Len(q) : i < j => q[i] < q[j]

Range(q) == { q[i] : i \in 1..Len(q) }

\* C8: a fresh run writes a checkpoint at exactly the iterations 1 and the
\* multiples of save_freq, and appends a log line at exactly the iterations 1
\* and the multiples of report_freq; with save_freq = report_freq = 1,
\* end_iter = 2 and val_freq above 2 that makes two checkpoints (1 and 2), two
\* log lines and one image validation, at iteration 1.
C8_FreshRunCadence ==
    (pc \in {"loop", "done"} /\ ~is_continue) =>
        LET done == 1..iter_step
            lines == SubSeq(loss_txt, Len(loss_txt) - Len(run_log.logged) + 1, Len(loss_txt))
        IN  /\ run_log.saved = { k \in done : k % conf.save_freq = 0 \/ k = 1 }
            /\ \A k \in run_log.saved :
                  /\ CkptName(k) \in DOMAIN checkpoints
                  /\ checkpoints[CkptName(k)].iter_step = k
            /\ Range(run_log.logged) = { k \in done : k % conf.report_freq = 0 \/ k = 1 }
            /\ IsAscending(run_log.logged)
            /\ Len(run_log.logged) <= Len(loss_txt)
            /\ \A i \in 1..Len(lines) : lines[i].iter = run_log.logged[i]
            /\ (pc = "done" /\ end_iter = 2 /\ conf.save_freq = 1
                  /\ conf.report_freq = 1 /\ conf.val_freq > 2) =>
                  /\ run_log.saved = {1, 2}
                  /\ run_log.logged = << 1, 2 >>
                  /\ run_log.validated = {1}

\* C8 witness: the scenario has run to its end.
C8_Witness ==
    /\ pc = "done"
    /\ ~is_continue
    /\ end_iter = 2
    /\ conf.save_freq = 1
    /\ conf.report_freq = 1
    /\ conf.val_freq > 2
    /\ run_log.steps = 2

\* C9: inside train() an image validation runs at iteration s exactly when s
\* is a scheduled tick (s % val_freq = 0 or s = 1) and either s <= 10000 or
\* s % (5 * val_freq) = 0; past 10000 the other ticks validate nothing.
C9_ValidationThrottle ==
    pc \in {"loop", "done"} =>
        LET ran == (stt + 1)..iter_step
            tick(s) == s % conf.val_freq = 0 \/ s = 1
        IN  /\ run_log.validated =
                  { s \in ran : tick(s) /\ (s <= 10000 \/ s % (5 * conf.val_freq) = 0) }
            /\ validations_fine = run_log.validated
            /\ \A s \in ran :
                  (s > 10000 /\ tick(s) /\ s % (5 * conf.val_freq) # 0)
                      => s \notin validations_fine

\* C9 witness: a run that validated at 10000, skipped the four ticks after it
\* and validated again at the fifth.
C9_Witness ==
    /\ pc = "done"
    /\ conf.val_freq = 1
    /\ stt < 10000
    /\ 10000 \in run_log.validated
    /\ {10001, 10002, 10003, 10004} \cap run_log.validated = {}
    /\ 10005 \in run_log.validated

\* C10: validate_image and render_novel_image cut the H*W rays, in row-major
\* order, into consecutive chunks of at most batch_size rays; every ray is in
\* exactly one chunk, origins and directions are cut alike, and the per-chunk
\* outputs concatenated in chunk order are the image one pass over the whole
\* grid gives.
C10_ChunkingLossless ==
    image # NoImage =>
        LET H == grid.H
            W == grid.W
            flat_o == Flatten(RayGrid("o", H, W), H, W)
            flat_d == Flatten(RayGrid("d", H, W), H, W)
            batches == image.batches
            whole == RenderBatch("color_fine", [o |-> flat_o, d |-> flat_d])
        IN  /\ \A c \in 1..Len(batches) :
                  /\ Len(batches[c].o) >= 1
                  /\ Len(batches[c].o) <= grid.batch_size
                  /\ Len(batches[c].d) = Len(batches[c].o)
                  /\ \A k \in 1..Len(batches[c].o) :
                        /\ batches[c].o[k][2] = batches[c].d[k][2]
                        /\ batches[c].o[k][3] = batches[c].d[k][3]
            /\ Concatenate([c \in 1..Len(batches) |-> batches[c].o]) = flat_o
            /\ Concatenate([c \in 1..Len(batches) |-> batches[c].d]) = flat_d
            /\ image.raised # "ValueError"
            /\ image.raised = None =>
                  /\ image.img_fine = [i \in 1..H |-> [j \in 1..W |-> whole[(i - 1) * W + j]]]
                  /\ \A i \in 1..H, j \in 1..W :
                        image.img_fine[i][j] = << "color_fine", << "o", i, j >>, << "d", i, j >> >>

\* C10 witness: an image of several rows and columns validated in three or
\* more chunks, the last one partial.
C10_Witness ==
    /\ image # NoImage
    /\ image.call = "validate_image"
    /\ image.raised = None
    /\ grid.H > 1
    /\ grid.W > 1
    /\ Len(image.batches) >= 3
    /\ (grid.H * grid.W) % grid.batch_size # 0

\* a <= b for two exact rationals.
FracLeq(a, b) == a[1] * b[2] <= b[1] * a[2]

\* C11: the learning rate in effect at the optimizer step of the iteration
\* that starts with iter_step = k is the base rate times factor(k), where
\* factor(k) is k / warm_up_end below warm_up_end (non-decreasing there) and the
\* cosine value of (k - warm_up_end) / (end_iter - warm_up_end) from there on;
\* so it is on the first iteration of a fresh run and of a resumed run, whatever
\* rate the loaded optimizer state holds.
C11_RateAtStep ==
    /\ render_in # NoRender =>
          LET k == render_in.iter_step
              w == conf.warm_up_end
              lr == render_in.optimizer.lr
          IN  /\ k < w => lr.kind = "linear" /\ lr.v[1] * w = k * lr.v[2]
              /\ k >= w =>
                    /\ lr.kind = "cosine"
                    /\ lr.v[1] * (end_iter - w) = (k - w) * lr.v[2]
              /\ lr.v[2] > 0
    /\ \A k \in 0..(conf.warm_up_end - 2) :
          FracLeq(LearningFactor(k, end_iter, conf.warm_up_end).v,
                  LearningFactor(k + 1, end_iter, conf.warm_up_end).v)

\* C11 witness: the first iteration after a resume stepped with the warm-up
\* rate of its iter_step while the loaded optimizer state holds another rate.
C11_Witness ==
    /\ is_continue
    /\ render_in # NoRender
    /\ render_in.first
    /\ render_in.iter_step = 1
    /\ render_in.optimizer.lr = [kind |-> "linear", v |-> Half]
    /\ latest_model_name \in DOMAIN checkpoints
    /\ checkpoints[latest_model_name] # Junk
    /\ checkpoints[latest_model_name].optimizer.lr # render_in.optimizer.lr

\* The checkpoint a resume by scan would load from the directory as it is now.
ScanWouldLoad == LatestModelName(TRUE, NoName, ckpt_dir, checkpoints, end_iter)

ScanWouldLoadOne ==
    ScanWouldLoad \in DOMAIN checkpoints /\ checkpoints[ScanWouldLoad] # Junk

\* How many iterations that checkpoint is behind iter_step.
IterationsBehind == iter_step - checkpoints[ScanWouldLoad].iter_step

\* Between two iterations of a run that has loaded or written a checkpoint and
\* has not passed end_iter, in a directory whose entries all parse.
BetweenIterations ==
    /\ pc = "loop"
    /\ is_continue \/ iter_step > 0
    /\ iter_step <= end_iter
    /\ \A n \in DOMAIN checkpoints : ~IntRaises(Slice5m4(n))

\* C12 as claimed: between two iterations the newest checkpoint on disk is at
\* most one iteration behind iter_step, for every save_freq.
C12_AtMostOneBehind ==
    BetweenIterations => ScanWouldLoadOne /\ IterationsBehind <= 1

\* C12: between two iterations of a run that loaded or wrote a checkpoint, the
\* newest checkpoint on disk is at most save_freq - 1 iterations behind
\* iter_step, so ending the process there and resuming loses fewer than
\* save_freq iterations (at most one only when save_freq <= 2).
C12_LessThanSaveFreqBehind ==
    BetweenIterations =>
        /\ ScanWouldLoadOne
        /\ IterationsBehind <= conf.save_freq - 1
        /\ conf.save_freq <= 2 => IterationsBehind <= 1

\* C12 witness: with save_freq = 3 the run stands two iterations past its
\* newest checkpoint.
C12_Witness ==
    /\ BetweenIterations
    /\ conf.save_freq = 3
    /\ ScanWouldLoadOne
    /\ IterationsBehind = 2
    /\ run_log.saved # {}

\* C13: a checkpoint artifact, once written, stays in the directory with its
\* content unchanged, whatever iterations, saves and resumes follow.
C13_CheckpointsImmutable ==
    [][ \A n \in DOMAIN checkpoints :
            n \in DOMAIN checkpoints' /\ checkpoints'[n] = checkpoints[n] ]_vars

\* C14: for every set of signals the renderer supplies, validate_image ends
\* without an error and writes exactly the kinds whose signal was supplied: the
\* color image for color_fine, the normal map for gradients with weights, the
\* depth map for depth_sdf, the consistency-cost map for ncc_cost.
C14_OutputsFollowSignals ==
    (image # NoImage /\ image.call = "validate_image") =>
        /\ image.raised = None
        /\ error = None
        /\ image.written =
              { kind \in {"validations_fine", "normals", "depths", "ncc_costs"} :
                  \/ kind = "validations_fine" /\ "color_fine" \in grid.supplied
                  \/ kind = "normals" /\ {"gradients", "weights"} \subseteq grid.supplied
                  \/ kind = "depths" /\ "depth_sdf" \in grid.supplied
                  \/ kind = "ncc_costs" /\ "ncc_cost" \in grid.supplied }

\* C15: every artifact save_checkpoint wrote is named "ckpt_", then the
\* iter_step stored in it left-padded with zeros to six digits (longer when the
\* number is), then ".pth"; the scan's parse of the name gives that iter_step;
\* so the iteration a scan selected and the iter_step its load restored agree.
C15_NameRoundTrip ==
    /\ \A n \in DOMAIN checkpoints :
          checkpoints[n] # Junk =>
              LET k == checkpoints[n].iter_step
                  mid == SubSeq(n, 6, Len(n) - 4)
              IN  /\ Len(n) >= 15
                  /\ SubSeq(n, 1, 5) = << "c", "k", "p", "t", "_" >>
                  /\ SubSeq(n, Len(n) - 3, Len(n)) = << ".", "p", "t", "h" >>
                  /\ \A i \in 1..Len(mid) : IsDigit(mid[i])
                  /\ DigitsValue(mid) = k
                  /\ Len(mid) > 6 => mid[1] # "0"
                  /\ ~IntRaises(Slice5m4(n))
                  /\ IntOf(Slice5m4(n)) = k
    /\ (pc = "constructed" /\ ScanResume) =>
          /\ ~IntRaises(Slice5m4(latest_model_name))
          /\ IntOf(Slice5m4(latest_model_name)) = iter_step
          /\ \A n \in DOMAIN checkpoints :
                (checkpoints[n] # Junk /\ checkpoints[n].iter_step <= end_iter)
                    => checkpoints[n].iter_step <= iter_step

\* C15 witness: a scan selected and loaded the artifact of iteration 1000000,
\* written by this experiment next to those of 999998 and 999999.
C15_Witness ==
    /\ pc = "constructed"
    /\ ScanResume
    /\ iter_step = 1000000
    /\ Len(latest_model_name) = 16
    /\ Len(CkptName(999999)) = 15
    /\ {CkptName(999998), CkptName(999999)} \subseteq DOMAIN checkpoints

====
